---- MODULE Spec2Model ----
(***************************************************************************)
(* A model of src/agent.py: the tax-form scraper and budget generator.     *)
(*                                                                         *)
(* Money is counted in whole cents (Python floats rounded to 2 decimals).  *)
(* A text is a sequence of characters (amount literals) or of tokens (page *)
(* text: labels, other non-digit text, commas and amount literals).        *)
(***************************************************************************)
EXTENDS Integers, Sequences, FiniteSets, TLC

\* ------------------------------------------------------------------------
\* Bounds of the model
\* ------------------------------------------------------------------------
\* Longest element text, in tokens, of a page drawn for the extraction spec.
MaxElemLen == 3
\* Net incomes 0 .. MaxNetCents cents are drawn for the budget spec.
MaxNetCents == 17

\* ------------------------------------------------------------------------
\* _coerce_num (src/agent.py 52-64)
\* ------------------------------------------------------------------------
DigitChars == {"0", "1", "2", "3", "4", "5", "6", "7", "8", "9"}

DigitVal(c) ==
    CASE c = "0" -> 0 [] c = "1" -> 1 [] c = "2" -> 2 [] c = "3" -> 3
      [] c = "4" -> 4 [] c = "5" -> 5 [] c = "6" -> 6 [] c = "7" -> 7
      [] c = "8" -> 8 [] c = "9" -> 9

RECURSIVE DigitsValue(_)
DigitsValue(ds) ==
    IF ds = <<>> THEN 0
    ELSE DigitsValue(SubSeq(ds, 1, Len(ds) - 1)) * 10 + DigitVal(ds[Len(ds)])

\* The first two fraction digits as cents (amounts are drawn with at most
\* two fraction digits).
FracCents(fs) ==
    IF Len(fs) = 0 THEN 0
    ELSE IF Len(fs) = 1 THEN DigitVal(fs[1]) * 10
    ELSE DigitVal(fs[1]) * 10 + DigitVal(fs[2])

\* Length of the run of digits of s that starts at index i.
RECURSIVE RunLen(_, _)
RunLen(s, i) ==
    IF i > Len(s) \/ s[i] \notin DigitChars THEN 0 ELSE 1 + RunLen(s, i + 1)

\* str.replace(sub, ""): every non-overlapping occurrence, left to right.
RECURSIVE RemoveSub(_, _)
RemoveSub(s, sub) ==
    IF Len(s) < Len(sub) THEN s
    ELSE IF SubSeq(s, 1, Len(sub)) = sub
         THEN RemoveSub(SubSeq(s, Len(sub) + 1, Len(s)), sub)
         ELSE <<s[1]>> \o RemoveSub(Tail(s), sub)

\* str.strip(): leading and trailing blanks removed.
RECURSIVE Strip(_)
Strip(s) ==
    IF s = <<>> THEN s
    ELSE IF s[1] = " " THEN Strip(Tail(s))
    ELSE IF s[Len(s)] = " " THEN Strip(SubSeq(s, 1, Len(s) - 1))
    ELSE s

\* float(s) on the model's alphabet: [sign] digits [. digits] | [sign] . digits
ParseFloat(s) ==
    LET signed == s # <<>> /\ s[1] \in {"-", "+"}
        body   == IF signed THEN Tail(s) ELSE s
        n1     == RunLen(body, 1)
        rest   == SubSeq(body, n1 + 1, Len(body))
        hasDot == rest # <<>> /\ rest[1] = "."
        fr     == IF hasDot THEN Tail(rest) ELSE <<>>
        n2     == RunLen(fr, 1)
        mag    == DigitsValue(SubSeq(body, 1, n1)) * 100 + FracCents(SubSeq(fr, 1, n2))
    IN  [ok    |-> (IF hasDot THEN n2 = Len(fr) ELSE rest = <<>>) /\ n1 + n2 >= 1,
         cents |-> IF signed /\ s[1] = "-" THEN 0 - mag ELSE mag]

\* re.search(r"(\d+(?:\.\d{1,2})?)", s): the first digit run, with up to two
\* fraction digits when a "." and a digit follow it.
RegexScan(s) ==
    IF \A i \in 1..Len(s) : s[i] \notin DigitChars THEN [ok |-> FALSE, cents |-> 0]
    ELSE LET i  == CHOOSE k \in 1..Len(s) :
                      s[k] \in DigitChars /\ \A j \in 1..(k - 1) : s[j] \notin DigitChars
             n1 == RunLen(s, i)
             j  == i + n1
             n2 == IF j <= Len(s) /\ s[j] = "." THEN RunLen(s, j + 1) ELSE 0
             fr == SubSeq(s, j + 1, j + (IF n2 > 2 THEN 2 ELSE n2))
         IN  [ok |-> TRUE,
              cents |-> DigitsValue(SubSeq(s, i, j - 1)) * 100 + FracCents(fr)]

coerce_num(x) ==
    LET s0 == SelectSeq(x, LAMBDA c : c # ",")
        s1 == RemoveSub(s0, <<"G", "H", "S">>)
        s2 == RemoveSub(s1, <<"G", "H", "cedi">>)
        s3 == RemoveSub(s2, <<"G", "H", "cent">>)
        s  == Strip(s3)
        asFloat == ParseFloat(s)
        scanned == RegexScan(s)
    IN  IF s = <<>> THEN 0
        ELSE IF asFloat.ok THEN asFloat.cents
        ELSE IF scanned.ok THEN scanned.cents
        ELSE 0

\* ------------------------------------------------------------------------
\* Page text as tokens
\* ------------------------------------------------------------------------
\* Label(1) "Net Income (take home)", Label(2) "Net Income",
\* Label(3) "Net Salary", Label(4) "Take home"; Other is any other text
\* without digits or commas (for instance "Gross Income GHS"); Comma is a
\* ","; Num(t) is an amount literal t matching [\d,]+(\.\d{1,2})?.
Label(i) == [kind |-> "label", lab |-> i, txt |-> <<>>]
Other    == [kind |-> "other", lab |-> 0, txt |-> <<>>]
Comma    == [kind |-> "comma", lab |-> 0, txt |-> <<",">>]
Num(t)   == [kind |-> "num", lab |-> 0, txt |-> t]

\* Whether the anchor of labelled pattern pat (1..4) matches at token tok:
\* "Net\s*Income" and "Take\s*home" (re.I) also occur inside
\* "Net Income (take home)".
AnchorAt(pat, tok) ==
    /\ tok.kind = "label"
    /\ CASE pat = 1 -> tok.lab = 1
         [] pat = 2 -> tok.lab \in {1, 2}
         [] pat = 3 -> tok.lab = 3
         [] pat = 4 -> tok.lab \in {1, 4}

Capturable(tok) == tok.kind \in {"num", "comma"}

\* re.search of labelled pattern pat: the leftmost anchor after which the
\* capture group can match; [^\d]* runs up to the first digit, and with no
\* digit left it backtracks to a ",".
LabelledMatch(pat, text) ==
    LET starts == {p \in 1..Len(text) :
                      /\ AnchorAt(pat, text[p])
                      /\ \E q \in (p + 1)..Len(text) : Capturable(text[q])}
    IN  IF starts = {} THEN [ok |-> FALSE, group |-> <<>>]
        ELSE LET p    == CHOOSE a \in starts : \A b \in starts : a <= b
                 nums == {q \in (p + 1)..Len(text) : text[q].kind = "num"}
             IN  IF nums = {} THEN [ok |-> TRUE, group |-> <<",">>]
                 ELSE [ok |-> TRUE,
                       group |-> text[CHOOSE a \in nums : \A b \in nums : a <= b].txt]

\* re.search of the generic pattern: the leftmost amount literal or ",".
GenericMatch(text) ==
    LET starts == {q \in 1..Len(text) : Capturable(text[q])}
    IN  IF starts = {} THEN [ok |-> FALSE, group |-> <<>>]
        ELSE [ok |-> TRUE,
              group |-> text[CHOOSE a \in starts : \A b \in starts : a <= b].txt]

PatternMatch(pat, text) ==
    IF pat <= 4 THEN LabelledMatch(pat, text) ELSE GenericMatch(text)

\* The index of the first pattern that matches text, 0 when none does.
FirstPattern(text) ==
    LET ok == [pat \in 1..5 |-> PatternMatch(pat, text).ok]
    IN  IF \A pat \in 1..5 : ~ok[pat] THEN 0
        ELSE CHOOSE pat \in 1..5 : ok[pat] /\ \A other \in 1..(pat - 1) : ~ok[other]

extract_amount_from_text(text) ==
    LET first == FirstPattern(text)
    IN  IF first = 0 THEN 0
        ELSE coerce_num(PatternMatch(first, text).group)

\* ------------------------------------------------------------------------
\* _scrape_net_income (src/agent.py 152-177)
\* ------------------------------------------------------------------------
\* A page is a sequence of elements, each with its inner text.
RECURSIVE BodyText(_)
BodyText(pg) ==
    IF pg = <<>> THEN <<>> ELSE pg[1] \o BodyText(Tail(pg))

\* page.content(): the markup, tags (non-digit text) around each element.
RECURSIVE Markup(_)
Markup(pg) ==
    IF pg = <<>> THEN <<>> ELSE <<Other>> \o pg[1] \o Markup(Tail(pg))

\* get_by_text(re.compile(re.escape(lab), re.I)): label lab occurs in token
\* tok ("Net Income" and "Take home" occur inside "Net Income (take home)").
ContainsLabel(elem, lab) ==
    \E p \in 1..Len(elem) : AnchorAt(lab, elem[p])

\* Strategy A for label lab: the text of the first element containing it,
\* parsed; 0 when no element contains it (the locator times out).
NearLabel(pg, lab) ==
    LET hits == {e \in 1..Len(pg) : ContainsLabel(pg[e], lab)}
    IN  IF hits = {} THEN 0
        ELSE extract_amount_from_text(pg[CHOOSE a \in hits : \A b \in hits : a <= b])

scrape_net_income(pg, bodyFails) ==
    LET near == [lab \in 1..4 |-> NearLabel(pg, lab)]
    IN  IF \E lab \in 1..4 : near[lab] > 0
        THEN near[CHOOSE lab \in 1..4 :
                     near[lab] > 0 /\ \A l2 \in 1..(lab - 1) : ~(near[l2] > 0)]
        ELSE extract_amount_from_text(IF bodyFails THEN Markup(pg) ELSE BodyText(pg))

\* ------------------------------------------------------------------------
\* Budget generation (src/agent.py 221-307)
\* ------------------------------------------------------------------------
\* The eight fixed categories, in the order of RB_WEIGHTS and of line 278.
Categories ==
    <<"Housing", "Food", "Transport", "Utilities", "Healthcare",
      "Education/Skills", "Savings/Emergency", "Discretionary">>

CategorySet == {Categories[i] : i \in 1..Len(Categories)}

\* RB_WEIGHTS, in percent.
RB_WEIGHTS ==
    [c \in CategorySet |->
        CASE c = "Housing" -> 30 [] c = "Food" -> 20 [] c = "Transport" -> 10
          [] c = "Utilities" -> 10 [] c = "Healthcare" -> 10
          [] c = "Education/Skills" -> 5 [] c = "Savings/Emergency" -> 10
          [] c = "Discretionary" -> 5]

\* round(x, 2) rounds the binary64 value x, which is never exactly halfway
\* between two cents: where the decimal product is halfway, the error of
\* the binary64 product decides. These are the halfway products
\* (net_income in cents, weight in percent) of net_income * w that lie
\* above the halfway point, for net_income up to 1.00.
ProductAboveHalf ==
    {<<5, 10>>, <<10, 5>>, <<25, 10>>, <<45, 30>>, <<45, 10>>, <<50, 5>>,
     <<55, 30>>, <<55, 10>>, <<65, 30>>, <<65, 10>>, <<75, 10>>, <<85, 30>>,
     <<85, 10>>, <<90, 5>>, <<95, 10>>}

\* The same for amount * (net_income / total): <<amount, net_income, total>>
\* in cents, for the amounts 1.00 and 2.00 and net_income up to 0.40.
ScaledAboveHalf ==
    {<<100, 1, 200>>, <<200, 1, 400>>, <<100, 2, 400>>, <<200, 2, 800>>,
     <<100, 3, 600>>, <<200, 3, 1200>>, <<100, 4, 800>>, <<100, 5, 200>>,
     <<200, 5, 400>>, <<100, 5, 1000>>, <<100, 6, 1200>>, <<100, 7, 200>>,
     <<200, 7, 400>>, <<100, 10, 400>>, <<200, 10, 800>>, <<100, 11, 200>>,
     <<200, 11, 400>>, <<100, 13, 200>>, <<200, 13, 400>>, <<100, 14, 400>>,
     <<200, 14, 800>>, <<100, 17, 200>>, <<200, 17, 400>>, <<100, 19, 200>>,
     <<200, 19, 400>>, <<100, 20, 800>>, <<100, 22, 400>>, <<200, 22, 800>>,
     <<100, 23, 200>>, <<200, 23, 400>>, <<100, 25, 1000>>, <<100, 26, 400>>,
     <<200, 26, 800>>, <<100, 27, 200>>, <<200, 27, 400>>, <<100, 27, 600>>,
     <<200, 27, 1200>>, <<100, 28, 800>>, <<100, 33, 200>>, <<200, 33, 400>>,
     <<100, 33, 600>>, <<200, 33, 1200>>, <<100, 34, 400>>, <<200, 34, 800>>,
     <<100, 38, 400>>, <<200, 38, 800>>, <<100, 39, 200>>, <<200, 39, 400>>,
     <<100, 39, 600>>, <<200, 39, 1200>>}

\* round(net_income * w, 2), in cents.
RoundWeighted(net, pct) ==
    IF (net * pct) % 100 = 50
    THEN (net * pct) \div 100 + (IF <<net, pct>> \in ProductAboveHalf THEN 1 ELSE 0)
    ELSE (net * pct + 50) \div 100

\* round(amount * factor, 2) with factor = net_income / total, in cents.
RoundScaled(amt, net, total) ==
    IF (2 * amt * net) % (2 * total) = total
    THEN (amt * net) \div total + (IF <<amt, net, total>> \in ScaledAboveHalf THEN 1 ELSE 0)
    ELSE (2 * amt * net + total) \div (2 * total)

Max0(x) == IF x > 0 THEN x ELSE 0

RECURSIVE SumAmounts(_)
SumAmounts(m) ==
    IF m = <<>> THEN 0 ELSE m[1].amt + SumAmounts(Tail(m))

Keys(m) == {m[i].cat : i \in 1..Len(m)}

\* dict.setdefault(ckey, 0.0) for the eight categories, in order: a missing
\* category is appended at 0.0, a present one is left alone.
RECURSIVE SetDefaults(_, _)
SetDefaults(m, i) ==
    IF i > Len(Categories) THEN m
    ELSE SetDefaults(IF Categories[i] \in Keys(m) THEN m
                     ELSE Append(m, [cat |-> Categories[i], amt |-> 0]), i + 1)

\* Lines 269-279 of generate_budget_with_llm: raw is the "items" object of
\* the response, a sequence of [cat, val] in the order of its keys.
RECURSIVE RawTotal(_)
RawTotal(raw) ==
    IF raw = <<>> THEN 0 ELSE Max0(coerce_num(raw[1].val)) + RawTotal(Tail(raw))

sanitize_items(raw, net) ==
    LET total  == RawTotal(raw)
        scaled == [i \in 1..Len(raw) |->
                     [cat |-> raw[i].cat,
                      amt |-> IF total > net /\ total > 0
                              THEN RoundScaled(Max0(coerce_num(raw[i].val)), net, total)
                              ELSE Max0(coerce_num(raw[i].val))]]
    IN  SetDefaults(scaled, 1)

llm_note(note) == IF note = "" THEN "LLM-generated budget." ELSE note

\* Line 286: every category's share, rounded on its own.
rounded_shares(net) ==
    [i \in 1..Len(Categories) |->
        [cat |-> Categories[i],
         amt |-> RoundWeighted(net, RB_WEIGHTS[Categories[i]])]]

\* A trim that leaves the amount as it is.
trim_nothing(amt, excess) == amt

\* The trim of line 291: max(0.0, round(items["Discretionary"] - excess, 2)).
trim_discretionary(amt, excess) == Max0(amt - excess)

\* generate_budget_rule_based. The float sum of line 287 can exceed
\* net_income by less than a cent when the cents agree; the excess then
\* rounds to 0.0 and the trim changes nothing, as here.
generate_budget_rule_based(net) ==
    LET shares == rounded_shares(net)
        total  == SumAmounts(shares)
    IN  IF total > net
        THEN [i \in 1..Len(shares) |->
                IF shares[i].cat = "Discretionary"
                THEN [cat |-> "Discretionary",
                      amt |-> trim_discretionary(shares[i].amt, total - net)]
                ELSE shares[i]]
        ELSE shares

rule_based_note == "Rule-based allocation (fallback)."

\* pct of line 304, kept as the fraction num / den.
pct_of(amt, net) ==
    IF net > 0 THEN [num |-> amt, den |-> net] ELSE [num |-> 0, den |-> 1]

\* list.sort(key=lambda x: x.amount, reverse=True): a stable sort, items of
\* equal amount keep their order. Insertion after every item that is not
\* smaller.
\* An order that puts an item ahead of the earlier items of its amount.
goes_before_strict(a, b) == a.amount > b.amount

goes_before(a, b) == a.amount >= b.amount

RECURSIVE InsertSorted(_, _)
InsertSorted(sorted, x) ==
    IF sorted = <<>> THEN <<x>>
    ELSE IF goes_before(sorted[1], x)
         THEN <<sorted[1]>> \o InsertSorted(Tail(sorted), x)
         ELSE <<x>> \o sorted

RECURSIVE SortDesc(_)
SortDesc(s) ==
    IF s = <<>> THEN <<>>
    ELSE InsertSorted(SortDesc(SubSeq(s, 1, Len(s) - 1)), s[Len(s)])

\* Lines 302-307 of produce_budget.
budget_items(m, net) ==
    SortDesc([i \in 1..Len(m) |->
                [category |-> m[i].cat, amount |-> m[i].amt,
                 pct |-> pct_of(m[i].amt, net)]])

\* The ways generate_budget_with_llm raises: no OPENAI_API_KEY (223-224),
\* the client call fails (227-247), the response is no JSON (258-264), the
\* parsed response is not an object of items (266-279).
LLMFailures == {"no_api_key", "client_error", "bad_json", "sanitize_error"}

\* A handler that lets the missing API key through.
caught_unless_no_key(failure) == failure \in LLMFailures \ {"no_api_key"}

\* The except clause of produce_budget (line 299) catches every failure.
caught_by_produce_budget(failure) == failure \in LLMFailures

\* produce_budget as one call: llm is what generate_budget_with_llm does,
\* [ok, failure, raw, note].
produce_budget(net, llm) ==
    LET m == IF llm.ok THEN sanitize_items(llm.raw, net)
             ELSE generate_budget_rule_based(net)
    IN  [items |-> budget_items(m, net),
         note  |-> IF llm.ok THEN llm_note(llm.note) ELSE rule_based_note]

\* ------------------------------------------------------------------------
\* Form filling and the run loop (src/agent.py 99-135, 179-217, 362-407)
\* ------------------------------------------------------------------------
SCENARIOS ==
    <<[name |-> "case1", salary |-> 4000, allowances |-> 0, relief |-> 0],
      [name |-> "case2", salary |-> 8000, allowances |-> 1000, relief |-> 200],
      [name |-> "case3", salary |-> 15000, allowances |-> 2500, relief |-> 500]>>

\* The fields fill_tax_form_and_get_net_income sets, in its order.
Fields == <<"salary", "allowances", "relief">>

\* Each kind of field has six selector candidates.
NumCandidates == 6

\* range(4) of the settling loop.
ScrapeAttempts == 4

\* What _type_and_fire does with a candidate: the selector matches nothing
\* (returns False), a call on it raises, or the value is typed (True).
CandidateOutcomes == {"absent", "raises", "accepts"}

\* A _set_field that returns once no candidate is left.
set_field_step_silent(outcome, cand) ==
    IF outcome = "accepts" THEN "return"
    ELSE IF cand < NumCandidates THEN "next"
    ELSE "return"

\* One turn of the loop of _set_field on candidate cand: return, go on to
\* the next candidate, or raise after the last.
set_field_step(outcome, cand) ==
    IF outcome = "accepts" THEN "return"
    ELSE IF cand < NumCandidates THEN "next"
    ELSE "raise"

\* A loop with one attempt more.
loop_continues_once_more(n) == n <= ScrapeAttempts

\* The settling loop makes another attempt after n attempts.
loop_continues(n) == n < ScrapeAttempts

\* run(), line 392 and line 397: what the loop appends to results.
results_after_ok(res, scenario, amount) ==
    Append(res, [scenario |-> scenario, net |-> amount])

\* A handler that records nothing for the failed scenario.
results_after_error_dropped(res, scenario) == res

results_after_error(res, scenario) ==
    Append(res, [scenario |-> scenario, net |-> 0])

\* Whether the page shows a net income of zero: a label directly followed
\* by an amount literal that reads 0.
ShowsZero(pg) ==
    \E e \in 1..Len(pg) : \E p \in 1..(Len(pg[e]) - 1) :
        /\ pg[e][p].kind = "label"
        /\ pg[e][p + 1].kind = "num"
        /\ coerce_num(pg[e][p + 1].txt) = 0

\* ------------------------------------------------------------------------
\* State
\* ------------------------------------------------------------------------
VARIABLES
    page,       \* the page's elements at the latest scrape
    scraped,    \* the latest result of _scrape_net_income, -1 before any
    extracted,  \* _extract_amount_from_text of the page's body text, -1 before
    net_income, \* the argument of produce_budget, in cents
    pcB,        \* where produce_budget is: "try", "fallback", "done", "raised"
    raw_items,  \* the "items" of the LLM response that was sanitized
    llm_result, \* "none", "ok" or the failure of generate_budget_with_llm
    llm_calls,  \* calls of generate_budget_with_llm
    rb_calls,   \* calls of generate_budget_rule_based
    items_map,  \* the winning strategy's map, a sequence of [cat, amt]
    items,      \* the list produce_budget returns
    note,       \* the note produce_budget returns
    sc,         \* run(): index of the scenario of the loop of line 383
    pc,         \* run(): "fields", "click", "wait", "scrape", "returned",
                \*        "raised", "pdf", "done", "crashed"
    field,      \* index in Fields of the field _set_field is setting
    cand,       \* the candidate _set_field tries next
    tried,      \* the candidates the latest _set_field tried: [cand, outcome]
    last_err,   \* the candidate whose exception _set_field holds, 0 for None
    delivered,  \* the fields set in this scenario
    steps,      \* extraction steps of this scenario before the scrapes
    scrape_log, \* the results of this scenario's scrape attempts
    fill_result,\* what fill_tax_form_and_get_net_income returned
    fail_cause, \* "delivery" or "extraction" when it raised
    results,    \* run(): the list of (scenario, net income)
    outcomes,   \* per scenario: how fill_tax_form_and_get_net_income ended
    rendered    \* the reports written: [scenario, net, items, note]

xvars == <<page, scraped, extracted>>
bvars == <<net_income, pcB, raw_items, llm_result, llm_calls, rb_calls,
           items_map, items, note>>
rvars == <<sc, pc, field, cand, tried, last_err, delivered, steps, scrape_log,
           fill_result, fail_cause, results, outcomes, rendered>>
vars == <<page, scraped, extracted, net_income, pcB, raw_items, llm_result,
          llm_calls, rb_calls, items_map, items, note, sc, pc, field, cand,
          tried, last_err, delivered, steps, scrape_log, fill_result,
          fail_cause, results, outcomes, rendered>>

IdleExtract ==
    /\ page = <<>>
    /\ scraped = -1
    /\ extracted = -1

IdleBudget ==
    /\ net_income = 0
    /\ pcB = "idle"
    /\ raw_items = <<>>
    /\ llm_result = "none"
    /\ llm_calls = 0
    /\ rb_calls = 0
    /\ items_map = <<>>
    /\ items = <<>>
    /\ note = ""

IdleRun ==
    /\ sc = 0
    /\ pc = "idle"
    /\ field = 1
    /\ cand = 1
    /\ tried = <<>>
    /\ last_err = 0
    /\ delivered = <<>>
    /\ steps = 0
    /\ scrape_log = <<>>
    /\ fill_result = -1
    /\ fail_cause = "none"
    /\ results = <<>>
    /\ outcomes = <<>>
    /\ rendered = <<>>

\* ------------------------------------------------------------------------
\* Run specification: run() over the three scenarios
\* ------------------------------------------------------------------------
\* What the page can show at a scrape: nothing; the label alone (still
\* computing); a net income of 0.00; a net income of 3,456.78; a gross
\* income of 9,000.00 and a net income of 7,300.00.
RunPages ==
    {<<>>,
     <<(<<Label(1)>>)>>,
     <<(<<Label(1), Num(<<"0", ".", "0", "0">>)>>)>>,
     <<(<<Label(1), Num(<<"3", ",", "4", "5", "6", ".", "7", "8">>)>>)>>,
     <<(<<Other, Num(<<"9", ",", "0", "0", "0", ".", "0", "0">>)>>),
       (<<Label(1), Num(<<"7", ",", "3", "0", "0", ".", "0", "0">>)>>)>>}

\* What generate_budget_with_llm can do in a run.
RunLLM ==
    {[ok |-> FALSE, failure |-> f, raw |-> <<>>, note |-> ""] : f \in LLMFailures}
    \cup
    {[ok |-> TRUE, failure |-> "none", note |-> "Save first.",
      raw |-> <<[cat |-> "Food", val |-> <<"9", "0">>],
                [cat |-> "Housing", val |-> <<"G", "H", "S", " ", "1", ",", "2", "0", "0">>]>>]}

InitRun ==
    /\ IdleExtract
    /\ IdleBudget
    /\ sc = 1
    /\ pc = "fields"
    /\ field = 1
    /\ cand = 1
    /\ tried = <<>>
    /\ last_err = 0
    /\ delivered = <<>>
    /\ steps = 0
    /\ scrape_log = <<>>
    /\ fill_result = -1
    /\ fail_cause = "none"
    /\ results = <<>>
    /\ outcomes = <<>>
    /\ rendered = <<>>

\* _set_field, lines 128-135: one candidate is tried; with it accepted the
\* next field follows (lines 182-184), and after the third the click.
TryCandidate ==
    /\ pc = "fields"
    /\ \E outcome \in CandidateOutcomes :
          LET step == set_field_step(outcome, cand)
              log  == IF cand = 1 THEN <<>> ELSE tried
          IN  /\ tried' = Append(log, [cand |-> cand, outcome |-> outcome])
              /\ last_err' = IF outcome = "raises" THEN cand
                             ELSE IF cand = 1 THEN 0 ELSE last_err
              /\ delivered' = IF outcome = "accepts" THEN Append(delivered, field)
                              ELSE delivered
              /\ cand' = IF step = "next" THEN cand + 1 ELSE 1
              /\ field' = IF step = "return" /\ field < Len(Fields) THEN field + 1
                          ELSE field
              /\ pc' = IF step = "raise" THEN "raised"
                       ELSE IF step = "return" /\ field = Len(Fields) THEN "click"
                       ELSE "fields"
              /\ fail_cause' = IF step = "raise" THEN "delivery" ELSE fail_cause
              /\ outcomes' = IF step = "raise"
                             THEN Append(outcomes, [kind |-> "delivery", value |-> 0,
                                                    zero_shown |-> FALSE])
                             ELSE outcomes
    /\ UNCHANGED <<sc, steps, scrape_log, fill_result, results, rendered>>
    /\ UNCHANGED <<xvars, bvars>>

\* Lines 187-190: the click on Calculate; its failure is swallowed. The
\* locals of the last _set_field are gone by now.
ClickCalculate ==
    /\ pc = "click"
    /\ steps' = steps + 1
    /\ pc' = "wait"
    /\ tried' = <<>>
    /\ last_err' = 0
    /\ UNCHANGED <<sc, field, cand, delivered, scrape_log,
                   fill_result, fail_cause, results, outcomes, rendered>>
    /\ UNCHANGED <<xvars, bvars>>

\* Lines 193-206: the wait for the result; its timeout is swallowed.
WaitForResult ==
    /\ pc = "wait"
    /\ steps' = steps + 1
    /\ pc' = "scrape"
    /\ UNCHANGED <<sc, field, cand, tried, last_err, delivered, scrape_log,
                   fill_result, fail_cause, results, outcomes, rendered>>
    /\ UNCHANGED <<xvars, bvars>>

\* Lines 209-213: one attempt of the settling loop, on what the page shows
\* by then.
ScrapeAttempt ==
    /\ pc = "scrape"
    /\ loop_continues(Len(scrape_log))
    /\ \E pg \in RunPages, bodyFails \in BOOLEAN :
          LET amount == scrape_net_income(pg, bodyFails)
          IN  /\ page' = pg
              /\ scraped' = amount
              /\ scrape_log' = Append(scrape_log, amount)
              /\ fill_result' = IF amount > 0 THEN amount ELSE fill_result
              /\ pc' = IF amount > 0 THEN "returned" ELSE "scrape"
              /\ outcomes' = IF amount > 0
                             THEN Append(outcomes, [kind |-> "ok", value |-> amount,
                                                    zero_shown |-> FALSE])
                             ELSE outcomes
    /\ UNCHANGED <<sc, field, cand, tried, last_err, delivered, steps,
                   fail_cause, results, rendered>>
    /\ UNCHANGED <<extracted, bvars>>

\* Lines 215-217: the loop is over without a positive amount.
ScrapeExhausted ==
    /\ pc = "scrape"
    /\ ~loop_continues(Len(scrape_log))
    /\ pc' = "raised"
    /\ fail_cause' = "extraction"
    /\ outcomes' = Append(outcomes, [kind |-> "extraction", value |-> 0,
                                     zero_shown |-> ShowsZero(page)])
    /\ UNCHANGED <<sc, field, cand, tried, last_err, delivered, steps,
                   scrape_log, fill_result, results, rendered>>
    /\ UNCHANGED <<xvars, bvars>>

\* The next turn of the loop of line 383, or the reports after the last.
NextScenario ==
    /\ sc' = sc + 1
    /\ pc' = IF sc < Len(SCENARIOS) THEN "fields" ELSE "pdf"
    /\ field' = 1
    /\ cand' = 1
    /\ tried' = <<>>
    /\ last_err' = 0
    /\ delivered' = <<>>
    /\ steps' = 0
    /\ scrape_log' = <<>>
    /\ fill_result' = -1
    /\ fail_cause' = "none"

\* run(), lines 385-393: the call returned.
RunRecordOk ==
    /\ pc = "returned"
    /\ results' = results_after_ok(results, SCENARIOS[sc], fill_result)
    /\ NextScenario
    /\ UNCHANGED <<outcomes, rendered>>
    /\ UNCHANGED <<xvars, bvars>>

\* run(), lines 394-397: the call raised.
RunRecordError ==
    /\ pc = "raised"
    /\ results' = results_after_error(results, SCENARIOS[sc])
    /\ NextScenario
    /\ UNCHANGED <<outcomes, rendered>>
    /\ UNCHANGED <<xvars, bvars>>

\* run(), lines 403-407: the report of the next result; a failure of
\* save_budget_pdf ends the run.
RenderPdf ==
    /\ pc = "pdf"
    /\ Len(rendered) < Len(results)
    /\ \E llm \in RunLLM, saved \in BOOLEAN :
          LET r == results[Len(rendered) + 1]
              b == produce_budget(r.net, llm)
          IN  IF ~llm.ok /\ ~caught_by_produce_budget(llm.failure)
              THEN pc' = "crashed" /\ rendered' = rendered
              ELSE IF ~saved
              THEN pc' = "crashed" /\ rendered' = rendered
              ELSE /\ rendered' = Append(rendered, [scenario |-> r.scenario, net |-> r.net,
                                                    items |-> b.items, note |-> b.note])
                   /\ pc' = IF Len(rendered) + 1 = Len(results) THEN "done" ELSE "pdf"
    /\ UNCHANGED <<sc, field, cand, tried, last_err, delivered, steps, scrape_log,
                   fill_result, fail_cause, results, outcomes>>
    /\ UNCHANGED <<xvars, bvars>>

Next ==
    \/ TryCandidate
    \/ ClickCalculate
    \/ WaitForResult
    \/ ScrapeAttempt
    \/ ScrapeExhausted
    \/ RunRecordOk
    \/ RunRecordError
    \/ RenderPdf

Spec == InitRun /\ [][Next]_vars

\* ------------------------------------------------------------------------
\* Budget specification: produce_budget on drawn net incomes and responses
\* ------------------------------------------------------------------------
\* Net incomes: every amount up to MaxNetCents cents, and 4000.00, 7300.00.
NetIncomes == 0..MaxNetCents \cup {400000, 730000}

\* The values an LLM response gives a category: -1, 1 and "GHS 2".
RawValues == <<(<<"-", "1">>), (<<"1">>), (<<"G", "H", "S", " ", "2">>)>>

\* The keys of an LLM response, in the order the response lists them.
LLMKeys == <<"Discretionary", "Housing", "Food", "Transport", "Utilities", "Rent">>

\* The response that gives key LLMKeys[i] the value RawValues[f[i]], and
\* leaves it out when f[i] = 0.
RECURSIVE RawFrom(_, _)
RawFrom(f, i) ==
    IF i > Len(LLMKeys) THEN <<>>
    ELSE (IF f[i] = 0 THEN <<>> ELSE <<[cat |-> LLMKeys[i], val |-> RawValues[f[i]]]>>)
         \o RawFrom(f, i + 1)

RawItemMaps == {RawFrom(f, 1) : f \in [1..Len(LLMKeys) -> 0..Len(RawValues)]}

\* The "note" of a response: missing, or a sentence.
RawNotes == {"", "Save first."}

InitBudget ==
    /\ IdleExtract
    /\ IdleRun
    /\ net_income \in NetIncomes
    /\ pcB = "try"
    /\ raw_items = <<>>
    /\ llm_result = "none"
    /\ llm_calls = 0
    /\ rb_calls = 0
    /\ items_map = <<>>
    /\ items = <<>>
    /\ note = ""

\* produce_budget, lines 297-298 and 302-307: generate_budget_with_llm
\* returns, and its map is converted and sorted.
LLMSucceeds ==
    /\ pcB = "try"
    /\ \E raw \in RawItemMaps, n \in RawNotes :
          /\ raw_items' = raw
          /\ items_map' = sanitize_items(raw, net_income)
          /\ items' = budget_items(sanitize_items(raw, net_income), net_income)
          /\ note' = llm_note(n)
    /\ llm_calls' = llm_calls + 1
    /\ llm_result' = "ok"
    /\ pcB' = "done"
    /\ UNCHANGED <<net_income, rb_calls>>
    /\ UNCHANGED <<xvars, rvars>>

\* produce_budget, lines 297-299: generate_budget_with_llm raises.
LLMFails ==
    /\ pcB = "try"
    /\ \E failure \in LLMFailures :
          /\ llm_result' = failure
          /\ pcB' = IF caught_by_produce_budget(failure) THEN "fallback" ELSE "raised"
    /\ llm_calls' = llm_calls + 1
    /\ UNCHANGED <<net_income, raw_items, rb_calls, items_map, items, note>>
    /\ UNCHANGED <<xvars, rvars>>

\* produce_budget, lines 300 and 302-307: the rule-based fallback.
Fallback ==
    /\ pcB = "fallback"
    /\ rb_calls' = rb_calls + 1
    /\ items_map' = generate_budget_rule_based(net_income)
    /\ items' = budget_items(generate_budget_rule_based(net_income), net_income)
    /\ note' = rule_based_note
    /\ pcB' = "done"
    /\ UNCHANGED <<net_income, raw_items, llm_result, llm_calls>>
    /\ UNCHANGED <<xvars, rvars>>

NextBudget == LLMSucceeds \/ LLMFails \/ Fallback

SpecBudget == InitBudget /\ [][NextBudget]_vars

\* ------------------------------------------------------------------------
\* Extraction specification: the pure extraction functions on drawn pages
\* ------------------------------------------------------------------------
AmountTexts == {<<"0">>, <<"5", "0", "0">>, <<"9", "0", "0">>}

Tokens == {Label(1), Label(2), Label(4), Other, Comma} \cup {Num(t) : t \in AmountTexts}

ElemTexts == UNION {[1..n -> Tokens] : n \in 1..MaxElemLen}

\* A second element, when the page has one.
SecondElems ==
    {<<Label(1)>>, <<Label(1), Num(<<"5", "0", "0">>)>>,
     <<Label(3), Num(<<"5", "0", "0">>)>>}

Pages ==
    {<<e>> : e \in ElemTexts} \cup {<<e1, e2>> : e1 \in ElemTexts, e2 \in SecondElems}

InitExtract ==
    /\ page \in Pages
    /\ scraped = -1
    /\ extracted = -1
    /\ IdleBudget
    /\ IdleRun

ExtractBody ==
    /\ extracted = -1
    /\ extracted' = extract_amount_from_text(BodyText(page))
    /\ UNCHANGED <<page, scraped>>
    /\ UNCHANGED <<bvars, rvars>>

Scrape ==
    /\ scraped = -1
    /\ \E bodyFails \in BOOLEAN :
          scraped' = scrape_net_income(page, bodyFails)
    /\ UNCHANGED <<page, extracted>>
    /\ UNCHANGED <<bvars, rvars>>

NextExtract == ExtractBody \/ Scrape

SpecExtract == InitExtract /\ [][NextExtract]_vars

\* ------------------------------------------------------------------------
\* Properties
\* ------------------------------------------------------------------------
Last(s) == s[Len(s)]

\* C1: for every net income and both strategies, every amount of the
\* returned map is >= 0 and the amounts sum to at most net_income + 0.01.
C1_AmountsBounded ==
    pcB = "done" =>
        /\ \A i \in 1..Len(items_map) : items_map[i].amt >= 0
        /\ SumAmounts(items_map) <= net_income + 1

\* C2: the loop of run() records one entry per scenario, in configuration
\* order: the extracted amount of a scenario that succeeded, 0 for one that
\* failed, whatever the other scenarios did; after the loop all are there.
C2_OneEntryPerScenario ==
    /\ Len(results) <= Len(SCENARIOS)
    /\ Len(results) <= Len(outcomes)
    /\ \A i \in 1..Len(results) :
          /\ results[i].scenario = SCENARIOS[i]
          /\ results[i].net = IF outcomes[i].kind = "ok" THEN outcomes[i].value ELSE 0
    /\ pc \in {"fields", "click", "wait", "scrape"} => Len(results) = sc - 1 /\ Len(outcomes) = sc - 1
    /\ pc \in {"returned", "raised"} => Len(results) = sc - 1 /\ Len(outcomes) = sc
    /\ pc \in {"pdf", "done", "crashed"} =>
          Len(results) = Len(SCENARIOS) /\ Len(outcomes) = Len(SCENARIOS)

\* C2 witness: the loop is over after a delivery failure, an extraction
\* failure and a success, in this order.
C2_Witness ==
    /\ pc = "pdf"
    /\ Len(results) = 3
    /\ outcomes[1].kind = "delivery"
    /\ outcomes[2].kind = "extraction"
    /\ outcomes[3].kind = "ok"
    /\ results[3].net > 0

\* C3: the settling loop makes at most 4 attempts, makes none after a
\* strictly positive result, which it returns, and raises only after 4
\* attempts that were all non-positive.
C3_RetryBounded ==
    /\ Len(scrape_log) <= 4
    /\ \A i \in 1..(Len(scrape_log) - 1) : scrape_log[i] <= 0
    /\ pc = "scrape" /\ scrape_log # <<>> => Last(scrape_log) <= 0
    /\ pc = "returned" =>
          /\ scrape_log # <<>>
          /\ Last(scrape_log) > 0
          /\ fill_result = Last(scrape_log)
    /\ pc = "raised" /\ fail_cause = "extraction" =>
          /\ Len(scrape_log) = 4
          /\ \A i \in 1..4 : scrape_log[i] <= 0

\* C3 witness: three attempts gave 0 and the fourth a positive amount,
\* which is returned.
C3_Witness ==
    /\ pc = "returned"
    /\ Len(scrape_log) = 4
    /\ \A i \in 1..3 : scrape_log[i] = 0
    /\ fill_result = scrape_log[4]
    /\ fill_result > 0

\* C4: produce_budget calls the LLM strategy at most once, never lets its
\* failure through, calls the rule-based strategy exactly once after a
\* failure and returns its result, and does not call it after a success.
C4_FallbackOnce ==
    /\ llm_calls <= 1
    /\ rb_calls <= 1
    /\ pcB # "raised"
    /\ pcB = "fallback" => llm_calls = 1 /\ rb_calls = 0 /\ llm_result \in LLMFailures
    /\ pcB = "done" =>
          /\ llm_calls = 1
          /\ llm_result = "ok" => rb_calls = 0
          /\ llm_result # "ok" =>
                /\ llm_result \in LLMFailures
                /\ rb_calls = 1
                /\ items_map = generate_budget_rule_based(net_income)
                /\ note = rule_based_note

\* C4 witness: the LLM strategy found no API key and the rule-based result
\* was returned.
C4_Witness ==
    /\ pcB = "done"
    /\ llm_result = "no_api_key"
    /\ llm_calls = 1
    /\ rb_calls = 1
    /\ items # <<>>

\* C5: an extraction step (click, wait, scrape) happens only after salary,
\* allowances and relief were set, in this order; when every candidate of a
\* field fails _set_field raises and no extraction step happens; candidates
\* are tried in list order and none after the first that accepts.
C5_NoExtractionWithoutDelivery ==
    /\ \A i \in 1..Len(delivered) : delivered[i] = i
    /\ Len(delivered) <= Len(Fields)
    /\ (steps > 0 \/ scrape_log # <<>> \/ pc \in {"click", "wait", "scrape", "returned"})
          => delivered = <<1, 2, 3>>
    /\ \A i \in 1..Len(tried) : tried[i].cand = i
    /\ \A i \in 1..(Len(tried) - 1) : tried[i].outcome # "accepts"
    /\ pc = "fields" => field = Len(delivered) + 1
    /\ pc = "raised" /\ fail_cause = "delivery" =>
          /\ steps = 0
          /\ scrape_log = <<>>
          /\ Len(delivered) < Len(Fields)
          /\ Len(tried) = NumCandidates
          /\ \A i \in 1..Len(tried) : tried[i].outcome # "accepts"

\* C5 witness: salary and allowances were set, then every candidate of
\* relief failed.
C5_Witness ==
    /\ pc = "raised"
    /\ fail_cause = "delivery"
    /\ delivered = <<1, 2>>
    /\ Len(tried) = 6
    /\ steps = 0

\* C6: a scenario that failed (no field set, or no amount on the page) is
\* recorded with 0, and its record differs from that of a scenario whose
\* page showed a net income of zero.
C6_UnresolvedDistinguishable ==
    \A i \in 1..Len(results) : \A j \in 1..Len(results) :
        /\ outcomes[i].kind # "ok" => results[i].net = 0
        /\ (outcomes[i].kind # "ok" /\ ~outcomes[i].zero_shown /\ outcomes[j].zero_shown)
              => results[i].net # results[j].net

\* The most specific label of a text, 0 when it has none.
MostSpecific(text) ==
    LET labs == {text[p].lab : p \in {q \in 1..Len(text) : text[q].kind = "label"}}
    IN  IF labs = {} THEN 0 ELSE CHOOSE a \in labs : \A b \in labs : a <= b

\* The strictly positive amounts that directly follow label lab in text.
AttachedPositive(text, lab) ==
    {coerce_num(text[p + 1].txt) :
        p \in {q \in 1..(Len(text) - 1) :
                  /\ text[q] = Label(lab)
                  /\ text[q + 1].kind = "num"
                  /\ coerce_num(text[q + 1].txt) > 0}}

\* C7: when the most specific label of the text is followed by a strictly
\* positive amount, extraction returns an amount attached to that label,
\* never another number of the text.
C7_LabelPrecedence ==
    LET text == BodyText(page)
        mine == AttachedPositive(text, MostSpecific(text))
    IN  (MostSpecific(text) # 0 /\ mine # {}) =>
            /\ extracted # -1 => extracted \in mine
            /\ scraped # -1 => scraped \in mine

\* C8: the list produce_budget returns holds each of the eight categories
\* exactly once and no other category.
C8_ExactlyTheEight ==
    pcB = "done" =>
        /\ Len(items) = Len(Categories)
        /\ \A i \in 1..Len(items) : items[i].category \in CategorySet
        /\ \A c \in CategorySet :
              Cardinality({i \in 1..Len(items) : items[i].category = c}) = 1

DiscretionaryIndex == CHOOSE i \in 1..Len(Categories) : Categories[i] = "Discretionary"

PlaceInMap(c) == CHOOSE k \in 1..Len(items_map) : items_map[k].cat = c

\* C10: the returned list is the entries of the strategy's map in
\* descending order of amount, equal amounts in the order of the map, each
\* with pct = amount / net_income, or 0 when net_income is 0.
C10_SortedStable ==
    pcB = "done" =>
        /\ Len(items) = Len(items_map)
        /\ \A k \in 1..Len(items_map) :
              Cardinality({i \in 1..Len(items) :
                              /\ items[i].category = items_map[k].cat
                              /\ items[i].amount = items_map[k].amt}) = 1
        /\ \A i \in 1..Len(items) : \A j \in 1..Len(items) :
              i < j =>
                 /\ items[i].amount >= items[j].amount
                 /\ items[i].amount = items[j].amount =>
                       PlaceInMap(items[i].category) < PlaceInMap(items[j].category)
        /\ \A i \in 1..Len(items) :
              IF net_income > 0
              THEN items[i].pct.num = items[i].amount /\ items[i].pct.den = net_income
              ELSE items[i].pct.num = 0

\* C10 witness: the LLM's map lists Discretionary before Housing with the
\* same positive amount and Food with more; Food comes first, then
\* Discretionary, then Housing.
C10_Witness ==
    /\ pcB = "done"
    /\ llm_result = "ok"
    /\ net_income > 0
    /\ Len(items) >= 3
    /\ items[1].category = "Food"
    /\ items[2].category = "Discretionary"
    /\ items[3].category = "Housing"
    /\ items[1].amount > items[2].amount
    /\ items[2].amount = items[3].amount
    /\ items[3].amount > 0

====
